---- MODULE Spec2Model ----
(***************************************************************************)
(* Typing rules of the CUDA intrinsics declared in numba/cuda/cudadecl.py: *)
(* the type algebra the rules reason over, the fixed signature tables, the *)
(* predicate and closure typers, the attribute templates of the cuda       *)
(* pseudo-modules, and a client that walks from the global `cuda` through  *)
(* attribute resolution to a function type and then asks for call types.   *)
(***************************************************************************)
EXTENDS Integers, Sequences, FiniteSets, TLC

VARIABLES
    intp_width,  \* bit width of types.intp on the platform of this process
    typ,         \* what the client holds: a type or, after a call, its outcome
    path,        \* the expression that produced typ, from the global `cuda` on
    request,     \* the last request issued (attribute or call)
    result       \* the outcome of the last request

vars == <<intp_width, typ, path, request, result>>

(***************************************************************************)
(* Bounds of the model.                                                    *)
(***************************************************************************)
MaxLit == 4        \* integer literals range over 0..MaxLit
MaxNdim == 2       \* array ranks range over 0..MaxNdim
MaxTupleLen == 2   \* shape tuples have 0..MaxTupleLen elements
MaxExtraArgs == 2  \* ill-shaped argument lists have 0..MaxExtraArgs elements

(***************************************************************************)
(* Type algebra (numba.core.types, as far as the rules inspect it).  A     *)
(* type is a record; its fields are the attributes the Python object has,  *)
(* so that an attribute read on a type that lacks it can be told apart.    *)
(***************************************************************************)
Integer(w, s) == [kind |-> "Integer", bitwidth |-> w, signed |-> s]
Float(w) == [kind |-> "Float", bitwidth |-> w]
int8 == Integer(8, TRUE)
int16 == Integer(16, TRUE)
int32 == Integer(32, TRUE)
int64 == Integer(64, TRUE)
uint8 == Integer(8, FALSE)
uint16 == Integer(16, FALSE)
uint32 == Integer(32, FALSE)
uint64 == Integer(64, FALSE)
float32 == Float(32)
float64 == Float(64)
i4 == int32
i8 == int64
f4 == float32
f8 == float64
b1 == [kind |-> "Boolean"]
none == [kind |-> "NoneType"]
intp == Integer(intp_width, TRUE)
dim3 == [kind |-> "Dim3"]

\* types.Tuple / types.UniTuple: an ordered list of element types.  A
\* homogeneous Tuple and the UniTuple of the same elements are the same value.
Tuple(ts) == [kind |-> "Tuple", types |-> ts]
UniTuple(dtype, count) == Tuple([i \in 1..count |-> dtype])
Array(dtype, ndim, layout) ==
    [kind |-> "Array", dtype |-> dtype, ndim |-> ndim, layout |-> layout]
\* types.IntegerLiteral: an integer type that also carries its constant.
IntegerLiteral(v) ==
    [kind |-> "IntegerLiteral", literal_value |-> v, literal_type |-> intp]
\* types.NumberClass: the type of a scalar type object used as a dtype spec.
NumberClass(t) == [kind |-> "NumberClass", instance_type |-> t]
Module(pymod) == [kind |-> "Module", pymod |-> pymod]
Function(template) == [kind |-> "Function", template |-> template]

signature(return_type, args) ==
    [kind |-> "Signature", return_type |-> return_type, args |-> args]

\* Outcomes that are not a signature or a type.
Unresolved == [kind |-> "Unresolved"]
NotFound == [kind |-> "NotFound"]
Raise(exc) == [kind |-> "Raise", exc |-> exc]

HasAttr(t, name) == name \in DOMAIN t
IsInteger(t) == t.kind \in {"Integer", "IntegerLiteral"}
IsIntegerLiteral(t) == t.kind = "IntegerLiteral"
IsTuple(t) == t.kind = "Tuple"
unliteral(t) == IF HasAttr(t, "literal_type") THEN t.literal_type ELSE t

(***************************************************************************)
(* Identities.  A Python object of the cuda package (cuda.grid,            *)
(* cuda.atomic.add, the module cuda.shared ...) is named by the attribute  *)
(* path that reaches it from the package.                                  *)
(***************************************************************************)
cuda == <<"cuda">>
Member(pymod, name) == Append(pymod, name)

(***************************************************************************)
(* Fixed signature tables: the `cases` of each ConcreteTemplate, in        *)
(* declaration order.                                                      *)
(***************************************************************************)
Cuda_syncthreads_cases == << signature(none, <<>>) >>
Cuda_syncthreads_count_cases == << signature(i4, <<i4>>) >>
Cuda_syncthreads_and_cases == << signature(i4, <<i4>>) >>
Cuda_syncthreads_or_cases == << signature(i4, <<i4>>) >>
Cuda_threadfence_device_cases == << signature(none, <<>>) >>
Cuda_threadfence_block_cases == << signature(none, <<>>) >>
Cuda_threadfence_system_cases == << signature(none, <<>>) >>
Cuda_syncwarp_cases == << signature(none, <<i4>>) >>

Cuda_shfl_sync_intrinsic_cases ==
    << signature(Tuple(<<i4, b1>>), <<i4, i4, i4, i4, i4>>),
       signature(Tuple(<<i8, b1>>), <<i4, i4, i8, i4, i4>>),
       signature(Tuple(<<f4, b1>>), <<i4, i4, f4, i4, i4>>),
       signature(Tuple(<<f8, b1>>), <<i4, i4, f8, i4, i4>>) >>

Cuda_vote_sync_intrinsic_cases ==
    << signature(Tuple(<<i4, b1>>), <<i4, i4, b1>>) >>

Cuda_match_any_sync_cases ==
    << signature(i4, <<i4, i4>>),
       signature(i4, <<i4, i8>>),
       signature(i4, <<i4, f4>>),
       signature(i4, <<i4, f8>>) >>

Cuda_match_all_sync_cases ==
    << signature(Tuple(<<i4, b1>>), <<i4, i4>>),
       signature(Tuple(<<i4, b1>>), <<i4, i8>>),
       signature(Tuple(<<i4, b1>>), <<i4, f4>>),
       signature(Tuple(<<i4, b1>>), <<i4, f8>>) >>

Cuda_popc_cases ==
    << signature(int8, <<int8>>),
       signature(int16, <<int16>>),
       signature(int32, <<int32>>),
       signature(int64, <<int64>>),
       signature(uint8, <<uint8>>),
       signature(uint16, <<uint16>>),
       signature(uint32, <<uint32>>),
       signature(uint64, <<uint64>>) >>

Cuda_fma_cases ==
    << signature(float32, <<float32, float32, float32>>),
       signature(float64, <<float64, float64, float64>>) >>

\* A table in which a later overload repeats the parameter list of an earlier
\* one with another return type.
Cuda_brev_cases_shadowed ==
    << signature(uint32, <<uint32>>),
       signature(uint64, <<uint32>>),
       signature(uint64, <<uint64>>) >>

Cuda_brev_cases ==
    << signature(uint32, <<uint32>>),
       signature(uint64, <<uint64>>) >>

Cuda_clz_cases ==
    << signature(int8, <<int8>>),
       signature(int16, <<int16>>),
       signature(int32, <<int32>>),
       signature(int64, <<int64>>),
       signature(uint8, <<uint8>>),
       signature(uint16, <<uint16>>),
       signature(uint32, <<uint32>>),
       signature(uint64, <<uint64>>) >>

Cuda_ffs_cases ==
    << signature(int8, <<int8>>),
       signature(int16, <<int16>>),
       signature(int32, <<int32>>),
       signature(int64, <<int64>>),
       signature(uint8, <<uint8>>),
       signature(uint16, <<uint16>>),
       signature(uint32, <<uint32>>),
       signature(uint64, <<uint64>>) >>

ConcreteTemplates ==
    { "Cuda_syncthreads", "Cuda_syncthreads_count", "Cuda_syncthreads_and",
      "Cuda_syncthreads_or", "Cuda_threadfence_device",
      "Cuda_threadfence_block", "Cuda_threadfence_system", "Cuda_syncwarp",
      "Cuda_shfl_sync_intrinsic", "Cuda_vote_sync_intrinsic",
      "Cuda_match_any_sync", "Cuda_match_all_sync", "Cuda_popc", "Cuda_fma",
      "Cuda_brev", "Cuda_clz", "Cuda_ffs" }

cases(template) ==
    CASE template = "Cuda_syncthreads" -> Cuda_syncthreads_cases
      [] template = "Cuda_syncthreads_count" -> Cuda_syncthreads_count_cases
      [] template = "Cuda_syncthreads_and" -> Cuda_syncthreads_and_cases
      [] template = "Cuda_syncthreads_or" -> Cuda_syncthreads_or_cases
      [] template = "Cuda_threadfence_device" -> Cuda_threadfence_device_cases
      [] template = "Cuda_threadfence_block" -> Cuda_threadfence_block_cases
      [] template = "Cuda_threadfence_system" -> Cuda_threadfence_system_cases
      [] template = "Cuda_syncwarp" -> Cuda_syncwarp_cases
      [] template = "Cuda_shfl_sync_intrinsic" -> Cuda_shfl_sync_intrinsic_cases
      [] template = "Cuda_vote_sync_intrinsic" -> Cuda_vote_sync_intrinsic_cases
      [] template = "Cuda_match_any_sync" -> Cuda_match_any_sync_cases
      [] template = "Cuda_match_all_sync" -> Cuda_match_all_sync_cases
      [] template = "Cuda_popc" -> Cuda_popc_cases
      [] template = "Cuda_fma" -> Cuda_fma_cases
      [] template = "Cuda_brev" -> Cuda_brev_cases
      [] template = "Cuda_clz" -> Cuda_clz_cases
      [] template = "Cuda_ffs" -> Cuda_ffs_cases

CallableTemplates ==
    { "Cuda_grid", "Cuda_gridsize", "Cuda_shared_array", "Cuda_local_array",
      "Cuda_const_array_like" }

AbstractTemplates ==
    { "Cuda_selp", "Cuda_atomic_add", "Cuda_atomic_max", "Cuda_atomic_min",
      "Cuda_atomic_compare_and_swap" }

\* The templates decorated with @register.
RegisteredTemplates ==
    ConcreteTemplates \cup CallableTemplates \cup AbstractTemplates

\* The `key` class attribute of each registered template.
key(template) ==
    CASE template = "Cuda_grid" -> Member(cuda, "grid")
      [] template = "Cuda_gridsize" -> Member(cuda, "gridsize")
      [] template = "Cuda_shared_array" -> Member(Member(cuda, "shared"), "array")
      [] template = "Cuda_local_array" -> Member(Member(cuda, "local"), "array")
      [] template = "Cuda_const_array_like" ->
             Member(Member(cuda, "const"), "array_like")
      [] template = "Cuda_syncthreads" -> Member(cuda, "syncthreads")
      [] template = "Cuda_syncthreads_count" -> Member(cuda, "syncthreads_count")
      [] template = "Cuda_syncthreads_and" -> Member(cuda, "syncthreads_and")
      [] template = "Cuda_syncthreads_or" -> Member(cuda, "syncthreads_or")
      [] template = "Cuda_threadfence_device" -> Member(cuda, "threadfence")
      [] template = "Cuda_threadfence_block" -> Member(cuda, "threadfence_block")
      [] template = "Cuda_threadfence_system" ->
             Member(cuda, "threadfence_system")
      [] template = "Cuda_syncwarp" -> Member(cuda, "syncwarp")
      [] template = "Cuda_shfl_sync_intrinsic" ->
             Member(cuda, "shfl_sync_intrinsic")
      [] template = "Cuda_vote_sync_intrinsic" ->
             Member(cuda, "vote_sync_intrinsic")
      [] template = "Cuda_match_any_sync" -> Member(cuda, "match_any_sync")
      [] template = "Cuda_match_all_sync" -> Member(cuda, "match_all_sync")
      [] template = "Cuda_popc" -> Member(cuda, "popc")
      [] template = "Cuda_fma" -> Member(cuda, "fma")
      [] template = "Cuda_brev" -> Member(cuda, "brev")
      [] template = "Cuda_clz" -> Member(cuda, "clz")
      [] template = "Cuda_ffs" -> Member(cuda, "ffs")
      [] template = "Cuda_selp" -> Member(cuda, "selp")
      [] template = "Cuda_atomic_add" -> Member(Member(cuda, "atomic"), "add")
      [] template = "Cuda_atomic_max" -> Member(Member(cuda, "atomic"), "max")
      [] template = "Cuda_atomic_min" -> Member(Member(cuda, "atomic"), "min")
      [] template = "Cuda_atomic_compare_and_swap" ->
             Member(Member(cuda, "atomic"), "compare_and_swap")

(***************************************************************************)
(* Fixed-table matching (ConcreteTemplate.generic): named arguments are    *)
(* refused, then the cases are scanned in declaration order and the first  *)
(* one whose parameter list equals the literal-unwrapped argument types    *)
(* wins; no match is Unresolved.                                           *)
(***************************************************************************)
\* Named arguments are a set of <<name, type>> pairs; `not kws` is emptiness.
NoKws(kws) == kws = {}

CaseMatches(sig, args) ==
    /\ Len(sig.args) = Len(args)
    /\ \A i \in 1..Len(args) : sig.args[i] = unliteral(args[i])

select(cs, args) ==
    LET hits == { i \in 1..Len(cs) : CaseMatches(cs[i], args) }
    IN  IF hits = {} THEN Unresolved
        ELSE cs[CHOOSE i \in hits : \A j \in hits : i <= j]

ConcreteTemplate_generic(template, args, kws) ==
    IF ~NoKws(kws) THEN Raise("AssertionError")
    ELSE select(cases(template), args)

(***************************************************************************)
(* Collaborators of the array typer (numba.core.typing.npydecl).           *)
(***************************************************************************)
PyNone == [kind |-> "None"]
\* A Python int that may stand where None may stand.
PyInt(n) == [kind |-> "int", value |-> n]

\* A definite rank only if every dimension is a literal integer.
parse_shape(shape) ==
    IF IsIntegerLiteral(shape) THEN PyInt(1)
    ELSE IF IsTuple(shape)
              /\ \A i \in 1..Len(shape.types) : IsIntegerLiteral(shape.types[i])
         THEN PyInt(Len(shape.types))
         ELSE PyNone

\* The element type a dtype specification names; nothing when unrecognised.
parse_dtype(dtype) ==
    IF dtype.kind = "NumberClass" THEN dtype.instance_type ELSE PyNone

(***************************************************************************)
(* Closure typers (the functions returned by CallableTemplate.generic).    *)
(***************************************************************************)
GridFunction_typer_tuple1(ndim) ==
    IF ~HasAttr(ndim, "literal_value") THEN Raise("AttributeError")
    ELSE LET val == ndim.literal_value
         IN  IF val \in {1, 2, 3}
             THEN signature(UniTuple(int32, val), <<int32>>)
             ELSE Raise("ValueError")

GridFunction_typer(ndim) ==
    IF ~HasAttr(ndim, "literal_value") THEN Raise("AttributeError")
    ELSE LET val == ndim.literal_value
         IN  IF val = 1 THEN signature(int32, <<int32>>)
             ELSE IF val \in {2, 3}
                  THEN signature(UniTuple(int32, val), <<int32>>)
                  ELSE Raise("ValueError")

Cuda_array_decl_typer_unchecked(shape, dtype) ==
    IF IsInteger(shape) /\ ~IsIntegerLiteral(shape) THEN PyNone
    ELSE IF IsTuple(shape)
              /\ \E i \in 1..Len(shape.types) :
                     ~IsIntegerLiteral(shape.types[i])
         THEN PyNone
         ELSE IF ~IsInteger(shape) /\ ~IsTuple(shape) THEN PyNone
              ELSE LET ndim == parse_shape(shape)
                       nb_dtype == parse_dtype(dtype)
                   IN  IF ndim # PyNone
                       THEN Array(nb_dtype, ndim.value, "C")
                       ELSE PyNone

Cuda_array_decl_typer(shape, dtype) ==
    IF IsInteger(shape) /\ ~IsIntegerLiteral(shape) THEN PyNone
    ELSE IF IsTuple(shape)
              /\ \E i \in 1..Len(shape.types) :
                     ~IsIntegerLiteral(shape.types[i])
         THEN PyNone
         ELSE IF ~IsInteger(shape) /\ ~IsTuple(shape) THEN PyNone
              ELSE LET ndim == parse_shape(shape)
                       nb_dtype == parse_dtype(dtype)
                   IN  IF nb_dtype # PyNone /\ ndim # PyNone
                       THEN Array(nb_dtype, ndim.value, "C")
                       ELSE PyNone

Cuda_const_array_like_typer(ndarray) == ndarray

(***************************************************************************)
(* Predicate typers (AbstractTemplate.generic).                            *)
(***************************************************************************)
Cuda_selp_supported_types_no16 ==
    { float64, float32, int32, uint32, int64, uint64 }

Cuda_selp_supported_types ==
    { float64, float32, int16, uint16, int32, uint32, int64, uint64 }

Cuda_selp_generic_unasserted(args, kws) ==
    IF Len(args) # 3 THEN Raise("ValueError")
    ELSE LET test == args[1]
             a == args[2]
             b == args[3]
         IN  IF a # b \/ a \notin Cuda_selp_supported_types THEN PyNone
             ELSE signature(a, <<test, a, a>>)

Cuda_selp_generic(args, kws) ==
    IF ~NoKws(kws) THEN Raise("AssertionError")
    ELSE IF Len(args) # 3 THEN Raise("ValueError")
    ELSE LET test == args[1]
             a == args[2]
             b == args[3]
         IN  IF a # b \/ a \notin Cuda_selp_supported_types THEN PyNone
             ELSE signature(a, <<test, a, a>>)

\* The rank dispatch shared by the atomic add, max and min typers.
Cuda_atomic_add_generic_idx(args, kws) ==
    IF ~NoKws(kws) THEN Raise("AssertionError")
    ELSE IF Len(args) # 3 THEN Raise("ValueError")
    ELSE LET ary == args[1]
             idx == args[2]
         IN  IF ~HasAttr(ary, "ndim") THEN Raise("AttributeError")
             ELSE IF ary.ndim >= 1
                  THEN IF ~HasAttr(ary, "dtype") THEN Raise("AttributeError")
                       ELSE signature(ary.dtype, <<ary, idx, ary.dtype>>)
                  ELSE PyNone

Cuda_atomic_add_generic(args, kws) ==
    IF ~NoKws(kws) THEN Raise("AssertionError")
    ELSE IF Len(args) # 3 THEN Raise("ValueError")
    ELSE LET ary == args[1]
             idx == args[2]
         IN  IF ~HasAttr(ary, "ndim") THEN Raise("AttributeError")
             ELSE IF ary.ndim = 1
                  THEN IF ~HasAttr(ary, "dtype") THEN Raise("AttributeError")
                       ELSE signature(ary.dtype, <<ary, intp, ary.dtype>>)
                  ELSE IF ary.ndim > 1
                       THEN IF ~HasAttr(ary, "dtype")
                            THEN Raise("AttributeError")
                            ELSE signature(ary.dtype, <<ary, idx, ary.dtype>>)
                       ELSE PyNone

Cuda_atomic_maxmin_supported_types ==
    { float64, float32, int32, uint32, int64, uint64 }

Cuda_atomic_maxmin_generic_any_dtype(args, kws) ==
    IF ~NoKws(kws) THEN Raise("AssertionError")
    ELSE IF Len(args) # 3 THEN Raise("ValueError")
    ELSE LET ary == args[1]
             idx == args[2]
         IN  IF ~HasAttr(ary, "dtype") THEN Raise("AttributeError")
             ELSE IF ~HasAttr(ary, "ndim") THEN Raise("AttributeError")
             ELSE IF ary.ndim = 1
                  THEN signature(ary.dtype, <<ary, intp, ary.dtype>>)
                  ELSE IF ary.ndim > 1
                       THEN signature(ary.dtype, <<ary, idx, ary.dtype>>)
                       ELSE PyNone

Cuda_atomic_maxmin_generic(args, kws) ==
    IF ~NoKws(kws) THEN Raise("AssertionError")
    ELSE IF Len(args) # 3 THEN Raise("ValueError")
    ELSE LET ary == args[1]
             idx == args[2]
         IN  IF ~HasAttr(ary, "dtype") THEN Raise("AttributeError")
             ELSE IF ary.dtype \notin Cuda_atomic_maxmin_supported_types
                  THEN PyNone
             ELSE IF ~HasAttr(ary, "ndim") THEN Raise("AttributeError")
             ELSE IF ary.ndim = 1
                  THEN signature(ary.dtype, <<ary, intp, ary.dtype>>)
                  ELSE IF ary.ndim > 1
                       THEN signature(ary.dtype, <<ary, idx, ary.dtype>>)
                       ELSE PyNone

Cuda_atomic_compare_and_swap_generic_any_rank(args, kws) ==
    IF ~NoKws(kws) THEN Raise("AssertionError")
    ELSE IF Len(args) # 3 THEN Raise("ValueError")
    ELSE LET ary == args[1]
         IN  IF ~HasAttr(ary, "dtype") THEN Raise("AttributeError")
             ELSE LET dty == ary.dtype
                  IN  IF dty = int32 THEN signature(dty, <<ary, dty, dty>>)
                      ELSE PyNone

Cuda_atomic_compare_and_swap_generic(args, kws) ==
    IF ~NoKws(kws) THEN Raise("AssertionError")
    ELSE IF Len(args) # 3 THEN Raise("ValueError")
    ELSE LET ary == args[1]
         IN  IF ~HasAttr(ary, "dtype") THEN Raise("AttributeError")
             ELSE LET dty == ary.dtype
                  IN  IF dty # int32 THEN PyNone
                      ELSE IF ~HasAttr(ary, "ndim")
                           THEN Raise("AttributeError")
                           ELSE IF ary.ndim = 1
                                THEN signature(dty, <<ary, dty, dty>>)
                                ELSE PyNone

(***************************************************************************)
(* Dispatch of a call to the rule registered for an identity.              *)
(***************************************************************************)
\* What a typer's return value becomes: None is "no match", an error
\* propagates, a signature stands, a bare type is the return type of a
\* signature over the actual arguments.
AsCallType(r, args) ==
    IF r = PyNone THEN Unresolved
    ELSE IF r.kind \in {"Raise", "Signature"} THEN r
    ELSE signature(r, args)

\* CallableTemplate: named arguments are refused, the positional arguments
\* are bound to the typer's parameters, and the typer is run.
CallableTemplate_generic(template, args, kws) ==
    IF ~NoKws(kws) THEN Raise("AssertionError")
    ELSE IF template \in {"Cuda_grid", "Cuda_gridsize"}
         THEN IF Len(args) # 1 THEN Unresolved
              ELSE AsCallType(GridFunction_typer(args[1]), args)
    ELSE IF template \in {"Cuda_shared_array", "Cuda_local_array"}
         THEN IF Len(args) # 2 THEN Unresolved
              ELSE AsCallType(Cuda_array_decl_typer(args[1], args[2]), args)
    ELSE IF Len(args) # 1 THEN Unresolved
         ELSE AsCallType(Cuda_const_array_like_typer(args[1]), args)

AbstractTemplate_generic(template, args, kws) ==
    CASE template = "Cuda_selp" -> AsCallType(Cuda_selp_generic(args, kws), args)
      [] template = "Cuda_atomic_add" ->
             AsCallType(Cuda_atomic_add_generic(args, kws), args)
      [] template \in {"Cuda_atomic_max", "Cuda_atomic_min"} ->
             AsCallType(Cuda_atomic_maxmin_generic(args, kws), args)
      [] template = "Cuda_atomic_compare_and_swap" ->
             AsCallType(Cuda_atomic_compare_and_swap_generic(args, kws), args)

apply(template, args, kws) ==
    IF template \in ConcreteTemplates
    THEN ConcreteTemplate_generic(template, args, kws)
    ELSE IF template \in CallableTemplates
         THEN CallableTemplate_generic(template, args, kws)
         ELSE AbstractTemplate_generic(template, args, kws)

resolve_call(identity, args, kws) ==
    LET found == { t \in RegisteredTemplates : key(t) = identity }
    IN  IF found = {} THEN Unresolved
        ELSE apply(CHOOSE t \in found : TRUE, args, kws)

(***************************************************************************)
(* Attribute templates: the resolve_<name> methods of each, as a map from  *)
(* member name to the type the method returns.                             *)
(***************************************************************************)
Dim3_attrs == [x |-> int32, y |-> int32, z |-> int32]

\* The shared namespace handing out the local-array rule.
CudaSharedModuleTemplate_local == [array |-> Function("Cuda_local_array")]

CudaSharedModuleTemplate == [array |-> Function("Cuda_shared_array")]

CudaConstModuleTemplate == [array_like |-> Function("Cuda_const_array_like")]

CudaLocalModuleTemplate == [array |-> Function("Cuda_local_array")]

CudaAtomicTemplate ==
    [add |-> Function("Cuda_atomic_add"),
     max |-> Function("Cuda_atomic_max"),
     min |-> Function("Cuda_atomic_min"),
     compare_and_swap |-> Function("Cuda_atomic_compare_and_swap")]

CudaModuleTemplate ==
    [grid |-> Function("Cuda_grid"),
     gridsize |-> Function("Cuda_gridsize"),
     threadIdx |-> dim3,
     blockIdx |-> dim3,
     blockDim |-> dim3,
     gridDim |-> dim3,
     warpsize |-> int32,
     laneid |-> int32,
     shared |-> Module(Member(cuda, "shared")),
     popc |-> Function("Cuda_popc"),
     brev |-> Function("Cuda_brev"),
     clz |-> Function("Cuda_clz"),
     ffs |-> Function("Cuda_ffs"),
     fma |-> Function("Cuda_fma"),
     syncthreads |-> Function("Cuda_syncthreads"),
     syncthreads_count |-> Function("Cuda_syncthreads_count"),
     syncthreads_and |-> Function("Cuda_syncthreads_and"),
     syncthreads_or |-> Function("Cuda_syncthreads_or"),
     threadfence |-> Function("Cuda_threadfence_device"),
     threadfence_block |-> Function("Cuda_threadfence_block"),
     threadfence_system |-> Function("Cuda_threadfence_system"),
     syncwarp |-> Function("Cuda_syncwarp"),
     shfl_sync_intrinsic |-> Function("Cuda_shfl_sync_intrinsic"),
     vote_sync_intrinsic |-> Function("Cuda_vote_sync_intrinsic"),
     match_any_sync |-> Function("Cuda_match_any_sync"),
     match_all_sync |-> Function("Cuda_match_all_sync"),
     selp |-> Function("Cuda_selp"),
     atomic |-> Module(Member(cuda, "atomic")),
     const |-> Module(Member(cuda, "const")),
     local |-> Module(Member(cuda, "local"))]

\* The attribute templates decorated with @register_attr, as <<key, map>>.
AttributeTemplates ==
    { <<dim3, Dim3_attrs>>,
      <<Module(Member(cuda, "shared")), CudaSharedModuleTemplate>>,
      <<Module(Member(cuda, "const")), CudaConstModuleTemplate>>,
      <<Module(Member(cuda, "local")), CudaLocalModuleTemplate>>,
      <<Module(Member(cuda, "atomic")), CudaAtomicTemplate>>,
      <<Module(cuda), CudaModuleTemplate>> }

\* AttributeTemplate.resolve: the method resolve_<name> of the template
\* registered for the type, looked up by its exact name.
resolve_attribute(ty, name) ==
    LET found == { t \in AttributeTemplates : t[1] = ty }
    IN  IF found = {} THEN NotFound
        ELSE LET entries == (CHOOSE t \in found : TRUE)[2]
             IN  IF name \in DOMAIN entries THEN entries[name] ELSE NotFound

(***************************************************************************)
(* Requests the client can issue.                                          *)
(***************************************************************************)
SeqsUpTo(S, n) == UNION { [1..k -> S] : k \in 0..n }

Literals == { IntegerLiteral(v) : v \in 0..MaxLit }

ScalarTypes ==
    { int8, int16, int32, int64, uint8, uint16, uint32, uint64,
      float32, float64, b1 }

\* Argument lists of the wrong shape for most rules: short lists of scalars.
ExtraArgLists == SeqsUpTo({int32, float32, IntegerLiteral(1)}, MaxExtraArgs)

\* Named-argument maps: none, or one named argument.
KwsChoices == { {}, {<<"dtype", NumberClass(float32)>>} }

DeclaredArgLists ==
    UNION { { cases(t)[i].args : i \in 1..Len(cases(t)) } :
            t \in ConcreteTemplates }

FixedTableArgLists ==
    DeclaredArgLists
      \cup { <<l>> : l \in Literals }
      \cup { <<float32>>, <<b1>>, <<int32, int32, int32>> }
      \cup ExtraArgLists

GridArgLists ==
    { <<l>> : l \in Literals } \cup { <<int64>>, <<uint8>> } \cup ExtraArgLists

Shapes ==
    Literals
      \cup { int32, int64, float32, b1, Array(float32, 1, "C") }
      \cup { Tuple(ts) :
             ts \in SeqsUpTo({IntegerLiteral(1), IntegerLiteral(MaxLit), int32,
                              float32}, MaxTupleLen) }

DtypeSpecs ==
    { NumberClass(float32), NumberClass(int32), NumberClass(uint8),
      float32, b1, IntegerLiteral(1) }

ArrayDeclArgLists ==
    { <<shape, dtype>> : shape \in Shapes, dtype \in DtypeSpecs }
      \cup ExtraArgLists

Arrays == { Array(dtype, ndim, "C") : dtype \in ScalarTypes, ndim \in 0..MaxNdim }

ArrayLikeArgLists == { <<a>> : a \in Arrays } \cup ExtraArgLists

SelpArgLists ==
    { <<test, a, b>> : test \in {b1, int32, float64},
                       a \in ScalarTypes \cup {IntegerLiteral(1)},
                       b \in ScalarTypes \cup {IntegerLiteral(1)} }
      \cup ExtraArgLists

IndexTypes == { intp, int32, IntegerLiteral(0), UniTuple(intp, 2), Tuple(<<int32, intp>>) }

AtomicArgLists ==
    { <<ary, idx, val>> : ary \in Arrays \cup {int32, float64},
                          idx \in IndexTypes,
                          val \in {int32, float64} }
      \cup ExtraArgLists

(***************************************************************************)
(* The client: it looks up the global `cuda`, resolves attributes from the *)
(* type it holds, and asks for the call type of a function type it holds.  *)
(***************************************************************************)
MemberNames ==
    UNION { DOMAIN t[2] : t \in AttributeTemplates }

\* Names no template declares, among them spellings that differ from a
\* declared member only in letter case.
OtherNames ==
    { "Grid", "GRID", "threadidx", "ThreadIdx", "WarpSize", "Shared", "Atomic",
      "Array", "ARRAY", "Array_like", "Add", "MAX", "Min", "Compare_and_swap",
      "X", "Y", "Z", "Popc", "Selp", "w", "device_array", "" }

Names == MemberNames \cup OtherNames

Init ==
    /\ intp_width \in {32, 64}
    /\ typ = Module(cuda)
    /\ path = cuda
    /\ request = [op |-> "global", name |-> "cuda"]
    /\ result = Module(cuda)

\* register_global(cuda, types.Module(cuda)): the global `cuda` is typed.
ResolveGlobal ==
    /\ typ' = Module(cuda)
    /\ path' = cuda
    /\ request' = [op |-> "global", name |-> "cuda"]
    /\ result' = Module(cuda)
    /\ UNCHANGED intp_width

\* A call's outcome ends the typing of the expression.
IsType(t) == t.kind \notin {"Signature", "Unresolved", "Raise"}

ResolveAttribute ==
    /\ IsType(typ)
    /\ \E name \in Names :
        LET r == resolve_attribute(typ, name)
        IN  /\ request' = [op |-> "attr", value |-> typ, name |-> name]
            /\ result' = r
            /\ IF r = NotFound
               THEN UNCHANGED <<typ, path>>
               ELSE /\ typ' = r
                    /\ path' = Member(path, name)
            /\ UNCHANGED intp_width

Call(argLists) ==
    \E args \in argLists, kws \in KwsChoices :
        /\ request' = [op |-> "call", identity |-> key(typ.template),
                       args |-> args, kws |-> kws]
        /\ result' = resolve_call(key(typ.template), args, kws)
        /\ typ' = result'
        /\ path' = Member(path, "()")
        /\ UNCHANGED intp_width

IsFunctionOf(templates) ==
    /\ typ.kind = "Function"
    /\ typ.template \in templates

CallFixedTable ==
    /\ IsFunctionOf(ConcreteTemplates)
    /\ Call(FixedTableArgLists)

CallGrid ==
    /\ IsFunctionOf({"Cuda_grid", "Cuda_gridsize"})
    /\ Call(GridArgLists)

CallArrayDecl ==
    /\ IsFunctionOf({"Cuda_shared_array", "Cuda_local_array"})
    /\ Call(ArrayDeclArgLists)

CallArrayLike ==
    /\ IsFunctionOf({"Cuda_const_array_like"})
    /\ Call(ArrayLikeArgLists)

CallSelp ==
    /\ IsFunctionOf({"Cuda_selp"})
    /\ Call(SelpArgLists)

CallAtomic ==
    /\ IsFunctionOf({"Cuda_atomic_add", "Cuda_atomic_max", "Cuda_atomic_min",
                     "Cuda_atomic_compare_and_swap"})
    /\ Call(AtomicArgLists)

Next ==
    \/ ResolveGlobal
    \/ ResolveAttribute
    \/ CallFixedTable
    \/ CallGrid
    \/ CallArrayDecl
    \/ CallArrayLike
    \/ CallSelp
    \/ CallAtomic

Spec == Init /\ [][Next]_vars

(***************************************************************************)
(* Properties.                                                             *)
(***************************************************************************)
IsCallOf(identities) ==
    /\ request.op = "call"
    /\ request.identity \in identities

\* C1: for every fixed-table rule and every signature S of its cases, a call
\* whose argument types equal S's parameter list returns S itself, and no
\* earlier case of the same table has the same parameter list.
FixedTableExactMatch ==
    \A t \in ConcreteTemplates :
        (IsCallOf({key(t)}) /\ request.kws = {}) =>
            \A i \in 1..Len(cases(t)) :
                request.args = cases(t)[i].args =>
                    /\ result = cases(t)[i]
                    /\ \A j \in 1..(i - 1) :
                           cases(t)[j].args # cases(t)[i].args

FixedTableExactMatchWitness ==
    /\ IsCallOf({<<"cuda", "shfl_sync_intrinsic">>})
    /\ request.kws = {}
    /\ request.args = <<i4, i4, f4, i4, i4>>
    /\ result = signature(Tuple(<<f4, b1>>), <<i4, i4, f4, i4, i4>>)

\* C2: the dimension-count typer of grid and gridsize, given one literal
\* integer n, returns int32 for n = 1, a tuple of n int32 for n in {2, 3},
\* and raises the invalid-domain error for every other n.
GridDimensionTyper ==
    ( /\ IsCallOf({<<"cuda", "grid">>, <<"cuda", "gridsize">>})
      /\ request.kws = {}
      /\ Len(request.args) = 1
      /\ request.args[1].kind = "IntegerLiteral" ) =>
        LET n == request.args[1].literal_value
        IN  /\ n = 1 =>
                /\ result.kind = "Signature"
                /\ result.return_type = Integer(32, TRUE)
            /\ n \in {2, 3} =>
                /\ result.kind = "Signature"
                /\ result.return_type.kind = "Tuple"
                /\ Len(result.return_type.types) = n
                /\ \A i \in 1..n :
                       result.return_type.types[i] = Integer(32, TRUE)
            /\ n \notin {1, 2, 3} => result = Raise("ValueError")

GridDimensionTyperWitness ==
    /\ IsCallOf({<<"cuda", "gridsize">>})
    /\ request.kws = {}
    /\ request.args = <<IntegerLiteral(3)>>
    /\ result.kind = "Signature"
    /\ Len(result.return_type.types) = 3

\* C3: shared.array and local.array, given (shape, dtype), return a C-layout
\* array of the parsed dtype with rank 1 for a literal integer shape and rank
\* = length for a tuple of literal integers, provided both parsers succeed;
\* every other shape, and every parser failure, is Unresolved.
ArrayAllocationRule ==
    ( /\ IsCallOf({<<"cuda", "shared", "array">>, <<"cuda", "local", "array">>})
      /\ request.kws = {}
      /\ Len(request.args) = 2 ) =>
        LET shape == request.args[1]
            dtype == request.args[2]
            literalInt == shape.kind = "IntegerLiteral"
            literalTuple ==
                /\ shape.kind = "Tuple"
                /\ \A i \in 1..Len(shape.types) :
                       shape.types[i].kind = "IntegerLiteral"
            ndim == IF literalInt THEN 1 ELSE Len(shape.types)
        IN  IF /\ literalInt \/ literalTuple
               /\ parse_shape(shape) # PyNone
               /\ parse_dtype(dtype) # PyNone
            THEN /\ result.kind = "Signature"
                 /\ result.return_type = Array(parse_dtype(dtype), ndim, "C")
            ELSE result = Unresolved

ArrayAllocationRuleWitness ==
    /\ IsCallOf({<<"cuda", "shared", "array">>})
    /\ request.kws = {}
    /\ request.args =
           <<Tuple(<<IntegerLiteral(1), IntegerLiteral(MaxLit)>>),
             NumberClass(float32)>>
    /\ result.kind = "Signature"
    /\ result.return_type = Array(float32, 2, "C")

\* The atomic rules applied to an array first argument.
IsAtomicCallOf(identities) ==
    /\ IsCallOf(identities)
    /\ request.kws = {}
    /\ Len(request.args) = 3
    /\ request.args[1].kind = "Array"

\* C4: atomic add on (array, index, value): rank 1 gives parameters (array,
\* intp, dtype), rank > 1 gives (array, the supplied index type, dtype), both
\* with return type dtype; rank 0 is Unresolved.
AtomicAddRule ==
    IsAtomicCallOf({<<"cuda", "atomic", "add">>}) =>
        LET ary == request.args[1]
            idx == request.args[2]
        IN  /\ ary.ndim = 1 =>
                result = signature(ary.dtype,
                                   <<ary, Integer(intp_width, TRUE), ary.dtype>>)
            /\ ary.ndim > 1 =>
                result = signature(ary.dtype, <<ary, idx, ary.dtype>>)
            /\ ary.ndim = 0 => result = Unresolved

AtomicAddRuleWitness ==
    /\ IsAtomicCallOf({<<"cuda", "atomic", "add">>})
    /\ request.args[1] = Array(int8, 1, "C")
    /\ request.args[2] = Tuple(<<int32, intp>>)
    /\ result.kind = "Signature"
    /\ result.args[2] = intp

\* C5: atomic max and min are Unresolved for a dtype outside {float64,
\* float32, int32, uint32, int64, uint64} whatever the rank, and otherwise
\* give exactly what atomic add gives for the same arguments.
AtomicMaxMinRule ==
    IsAtomicCallOf({<<"cuda", "atomic", "max">>, <<"cuda", "atomic", "min">>}) =>
        IF request.args[1].dtype \notin
               { Float(64), Float(32), Integer(32, TRUE), Integer(32, FALSE),
                 Integer(64, TRUE), Integer(64, FALSE) }
        THEN result = Unresolved
        ELSE result = resolve_call(<<"cuda", "atomic", "add">>, request.args, {})

AtomicMaxMinRuleWitness ==
    /\ IsAtomicCallOf({<<"cuda", "atomic", "min">>})
    /\ request.args[1] = Array(uint32, 2, "C")
    /\ result.kind = "Signature"

\* C6 as stated: compare-and-swap succeeds only for an int32 array of rank 1,
\* and then all three parameter types and the return type equal the dtype.
CompareAndSwapAllParametersDtype ==
    IsAtomicCallOf({<<"cuda", "atomic", "compare_and_swap">>}) =>
        LET ary == request.args[1]
        IN  IF ary.dtype = Integer(32, TRUE) /\ ary.ndim = 1
            THEN /\ result.kind = "Signature"
                 /\ result.return_type = ary.dtype
                 /\ Len(result.args) = 3
                 /\ \A i \in 1..3 : result.args[i] = ary.dtype
            ELSE result = Unresolved

\* C6 (amended): compare-and-swap succeeds only for an int32 array of rank 1;
\* then the parameter types are (the array type, dtype, dtype) and the return
\* type is the dtype; every other dtype or rank is Unresolved.
CompareAndSwapRule ==
    IsAtomicCallOf({<<"cuda", "atomic", "compare_and_swap">>}) =>
        LET ary == request.args[1]
        IN  IF ary.dtype = Integer(32, TRUE) /\ ary.ndim = 1
            THEN result = signature(ary.dtype, <<ary, ary.dtype, ary.dtype>>)
            ELSE result = Unresolved

CompareAndSwapRuleWitness ==
    /\ IsAtomicCallOf({<<"cuda", "atomic", "compare_and_swap">>})
    /\ request.args[1] = Array(int32, 1, "C")
    /\ result.kind = "Signature"

\* C7: selp on (condition, a, b) succeeds iff a and b are the same type and it
\* is one of float64, float32, int16, uint16, int32, uint32, int64, uint64,
\* whatever the condition; then the signature is (condition, a, a) -> a;
\* otherwise the result is Unresolved.
BranchSelectRule ==
    ( /\ IsCallOf({<<"cuda", "selp">>})
      /\ request.kws = {}
      /\ Len(request.args) = 3 ) =>
        LET c == request.args[1]
            a == request.args[2]
            b == request.args[3]
        IN  IF /\ a = b
               /\ a \in { Float(64), Float(32), Integer(16, TRUE),
                          Integer(16, FALSE), Integer(32, TRUE),
                          Integer(32, FALSE), Integer(64, TRUE),
                          Integer(64, FALSE) }
            THEN result = signature(a, <<c, a, a>>)
            ELSE result = Unresolved

BranchSelectRuleWitness ==
    /\ IsCallOf({<<"cuda", "selp">>})
    /\ request.kws = {}
    /\ request.args = <<float64, uint16, uint16>>
    /\ result = signature(uint16, <<float64, uint16, uint16>>)

\* The chains through a nested namespace.
NestedChains ==
    { <<"cuda", "atomic", "add">>, <<"cuda", "atomic", "max">>,
      <<"cuda", "atomic", "min">>, <<"cuda", "atomic", "compare_and_swap">>,
      <<"cuda", "shared", "array">>, <<"cuda", "local", "array">>,
      <<"cuda", "const", "array_like">> }

\* C8: on every registered namespace a member name of its map resolves to the
\* mapped type and any other name (also one differing only in letter case) to
\* NotFound; and every chain through a nested namespace ends in a function
\* type of the rule registered for the identity the chain names.
AttributeResolution ==
    /\ request.op = "attr" =>
           /\ \A t \in AttributeTemplates :
                  t[1] = request.value =>
                      IF request.name \in DOMAIN t[2]
                      THEN result = t[2][request.name]
                      ELSE result = NotFound
           /\ request.name \in OtherNames => result = NotFound
    /\ path \in NestedChains =>
           /\ typ.kind = "Function"
           /\ typ.template \in RegisteredTemplates
           /\ key(typ.template) = path
    /\ typ.kind = "Function" => key(typ.template) = path

AttributeResolutionWitness ==
    /\ request = [op |-> "attr", value |-> Module(<<"cuda", "shared">>),
                  name |-> "array"]
    /\ path = <<"cuda", "shared", "array">>
    /\ typ.kind = "Function"

\* C9: a call with a non-empty named-arguments map raises the
\* malformed-request error for every registered intrinsic; it never returns a
\* signature or Unresolved.
NamedArgumentsRefused ==
    (request.op = "call" /\ request.kws # {}) =>
        result = Raise("AssertionError")

NamedArgumentsRefusedWitness ==
    /\ IsCallOf({<<"cuda", "selp">>})
    /\ request.kws # {}
    /\ request.args = <<b1, float64, float64>>
    /\ result = Raise("AssertionError")

\* C10: with empty named arguments a call that matches no declared or
\* computed signature is Unresolved and does not raise, whatever the number
\* and types of its arguments; the only raising outcome is a literal constant
\* outside the domain of the dimension-count typer.
NoMatchNeverRaises ==
    (request.op = "call" /\ request.kws = {}) =>
        /\ result.kind \in {"Signature", "Unresolved", "Raise"}
        /\ result.kind = "Raise" =>
               /\ request.identity \in
                      {<<"cuda", "grid">>, <<"cuda", "gridsize">>}
               /\ Len(request.args) = 1
               /\ request.args[1].kind = "IntegerLiteral"
               /\ request.args[1].literal_value \notin {1, 2, 3}

====
